---------------------------- MODULE Spec2Model ----------------------------
(***************************************************************************)
(* Model of optris_camera_debug_tool.py: the Formats.def catalog parser    *)
(* (FormatsDefParser), the camera session (CameraManager), and the viewer  *)
(* application with its acquisition timer (ThermalCameraApp).              *)
(*                                                                         *)
(* Three specifications over the same variables:                           *)
(*   SpecCatalog  a FormatsDefParser object: construction, then queries;   *)
(*   SpecManager  a CameraManager object driven through its methods;       *)
(*   Spec         the program: ThermalCameraApp.__init__, the Qt event     *)
(*                loop (timer ticks, button handlers), closeEvent.         *)
(***************************************************************************)
EXTENDS Integers, Sequences, FiniteSets, TLC

VARIABLES
    file,               \* Formats.def on disk: [readable, blocks]
    formats,            \* FormatsDefParser.formats
    loaded,             \* "new" | "returned" | "raised": outcome of FormatsDefParser()
    last,               \* the last method call of the object under test and its outcome
    libir,              \* CameraManager.libir is set (the DLL is loaded)
    available_formats,  \* CameraManager.available_formats
    sdk,                \* the device behind libirimager.dll: [live, inits, terminates, frames]
    app,                \* ThermalCameraApp: fields, timers, widgets, position
    now                 \* time.time(), in quarters of a second

vars == <<file, formats, loaded, last, libir, available_formats, sdk, app, now>>

(***************************************************************************)
(* Bounds.                                                                 *)
(***************************************************************************)
MaxBlocks == 2      \* [Format] blocks in a catalog file
MaxOpens  == 2      \* usb_init calls that succeed, and terminate calls, per run
MaxFrames == 3      \* frames the device delivers
MaxTime   == 6      \* last instant of the clock
MaxDim    == 2      \* largest width and height of a thermal frame held sample by sample

\* the FPS window of update_frame, 0.5 s, in quarters of a second
FpsWindow == 2

(***************************************************************************)
(* Text of a Formats.def file.  A block is what the regular expressions of *)
(* parse_formats_file can see of it: every field is the sequence of its    *)
(* matches in textual order (re.search takes the first).                   *)
(***************************************************************************)
GUIDs == {"A", "B"}

NamePI    == <<"P", "I", " ", "h">>     \* "PI h"
NameXi    == <<"X", "i">>               \* "Xi"
NameBlank == <<" ">>                    \* " "
NameLead  == <<" ", "X", "i", " ", "h">> \* " Xi h"

D640 == <<"6", "4", "0">>
D480 == <<"4", "8", "0">>
D382 == <<"3", "8", "2">>
D288 == <<"2", "8", "8">>

Fps32  == <<"3", "2">>                  \* "32"
Fps27  == <<"2", "7", ".", "0">>        \* "27.0"
FpsBad == <<"1", ".", "2", ".", "3">>   \* "1.2.3": matches [\d.]+, float() raises

Out640    == [w |-> D640, h |-> D480, fps |-> Fps32]
Out640b   == [w |-> <<"0">> \o D640, h |-> D480, fps |-> Fps27]   \* "0640 480 27.0"
Out382    == [w |-> D382, h |-> D288, fps |-> Fps27]
OutBadFps == [w |-> D640, h |-> D480, fps |-> FpsBad]

\* Blocks that vary in Guid, deprecation marker and replaces references.
CoreBlocks ==
    [guid : {<<>>} \cup {<<g>> : g \in GUIDs},
     deprecated : BOOLEAN,
     replaces : {<<>>, <<"A">>, <<"B">>, <<"B", "A">>},
     name : {<<NamePI>>},
     out : {<<Out640>>},
     hwrev : {<<>>}, fwrev : {<<>>}, deviceRes : {<<>>}]

\* Blocks that vary in the optional fields.
AttrBlocks ==
    {[guid |-> <<g>>, deprecated |-> FALSE, replaces |-> <<>>,
      name |-> a[1], out |-> a[2], hwrev |-> a[3], fwrev |-> <<>>,
      deviceRes |-> a[4]] :
        g \in GUIDs,
        a \in {<< <<>>,          <<Out640>>,    <<>>,      <<>> >>,
               << <<NameBlank>>, <<Out640b>>,   <<>>,      <<>> >>,
               << <<NameXi>>,    <<Out382>>,    <<"1">>,   <<Out382>> >>,
               << <<NameLead>>,  <<>>,          <<>>,      <<>> >>,
               << <<NamePI>>,    <<OutBadFps>>, <<>>,      <<>> >>,
               << <<NameXi>>,    <<Out382>>,    <<>>,      <<OutBadFps>> >>}}

BlockUniverse == CoreBlocks \cup AttrBlocks

SeqsUpTo(S, n) == UNION {[1..k -> S] : k \in 0..n}

Files ==
    {[readable |-> FALSE, blocks |-> <<>>]} \cup
    {[readable |-> TRUE, blocks |-> bs] : bs \in SeqsUpTo(BlockUniverse, MaxBlocks)}

(***************************************************************************)
(* Conversions used by the parser.                                         *)
(***************************************************************************)
DigitVal(c) ==
    CASE c = "0" -> 0 [] c = "1" -> 1 [] c = "2" -> 2 [] c = "3" -> 3
      [] c = "4" -> 4 [] c = "5" -> 5 [] c = "6" -> 6 [] c = "7" -> 7
      [] c = "8" -> 8 [] c = "9" -> 9

\* int(text) for a text of decimal digits
RECURSIVE PyInt(_)
PyInt(t) ==
    IF t = <<>> THEN 0
    ELSE 10 * PyInt(SubSeq(t, 1, Len(t) - 1)) + DigitVal(t[Len(t)])

Dots(t) == {i \in 1..Len(t) : t[i] = "."}

\* float(text) raises ValueError unless text is digits with at most one dot
\* and at least one digit
FloatRaises(t) == Cardinality(Dots(t)) > 1 \/ Cardinality(Dots(t)) = Len(t)

RECURSIVE StripZeros(_)
StripZeros(t) ==
    IF t # <<>> /\ t[Len(t)] = "0" THEN StripZeros(SubSeq(t, 1, Len(t) - 1)) ELSE t

\* float(text) as the pair <<integer part, fraction digits>>, so that
\* float("27.0") = float("27")
PyFloat(t) ==
    IF Dots(t) = {} THEN <<PyInt(t), <<>> >>
    ELSE LET d == CHOOSE i \in Dots(t) : TRUE
         IN  <<PyInt(SubSeq(t, 1, d - 1)), StripZeros(SubSeq(t, d + 1, Len(t)))>>

\* str.split(): the maximal runs of non-whitespace characters
RECURSIVE PySplit(_)
PySplit(s) ==
    IF s = <<>> THEN <<>>
    ELSE IF s[1] = " " THEN PySplit(Tail(s))
    ELSE LET stops == {i \in 1..Len(s) : s[i] = " "}
             e == IF stops = {} THEN Len(s) + 1
                  ELSE CHOOSE i \in stops : \A j \in stops : i <= j
         IN  <<SubSeq(s, 1, e - 1)>> \o PySplit(SubSeq(s, e, Len(s)))

(***************************************************************************)
(* FormatsDefParser.parse_formats_file                                     *)
(***************************************************************************)
\* the dict format_info of one block that has a Guid and no deprecation
\* marker; a dict is a function on its keys
FormatInfo(b) ==
    [guid |-> b.guid[1]]
    @@ (IF b.name # <<>> THEN [name |-> b.name[1]] ELSE <<>>)
    @@ (IF b.out # <<>>
        THEN [width |-> PyInt(b.out[1].w), height |-> PyInt(b.out[1].h),
              fps |-> PyFloat(b.out[1].fps)]
        ELSE <<>>)
    @@ (IF b.hwrev # <<>> THEN [hwrev |-> b.hwrev[1]] ELSE <<>>)
    @@ (IF b.fwrev # <<>> THEN [fwrev |-> b.fwrev[1]] ELSE <<>>)
    @@ (IF b.deviceRes # <<>>
        THEN [device_width |-> PyInt(b.deviceRes[1].w),
              device_height |-> PyInt(b.deviceRes[1].h),
              device_fps |-> PyFloat(b.deviceRes[1].fps)]
        ELSE <<>>)

\* float() raises inside the block
BlockRaises(b) ==
    \/ b.out # <<>> /\ FloatRaises(b.out[1].fps)
    \/ b.deviceRes # <<>> /\ FloatRaises(b.deviceRes[1].fps)

\* formats_by_guid[guid] = format_info on an insertion-ordered dict, kept as
\* the sequence of its values
DictPut(d, info) ==
    IF \E i \in 1..Len(d) : d[i].guid = info.guid
    THEN [i \in 1..Len(d) |-> IF d[i].guid = info.guid THEN info ELSE d[i]]
    ELSE Append(d, info)

\* BlockStep without the deprecation marker check: the marked block is parsed
\* like any other
BlockStepKeepsDeprecated(st, b) ==
    IF b.guid = <<>> THEN st
    ELSE LET dep == IF b.replaces # <<>>
                    THEN st.deprecated_guids \cup {b.replaces[1]}
                    ELSE st.deprecated_guids
         IN  IF BlockRaises(b)
             THEN [st EXCEPT !.deprecated_guids = dep, !.raised = TRUE]
             ELSE [st EXCEPT !.deprecated_guids = dep,
                             !.formats_by_guid = DictPut(@, FormatInfo(b))]

\* BlockStep that records the block's own Guid, not the replaced one
BlockStepReplacesSelf(st, b) ==
    IF b.guid = <<>> THEN st
    ELSE IF b.deprecated
    THEN [st EXCEPT !.deprecated_guids = @ \cup {b.guid[1]}]
    ELSE IF BlockRaises(b) THEN [st EXCEPT !.raised = TRUE]
    ELSE [st EXCEPT !.formats_by_guid = DictPut(@, FormatInfo(b))]

\* BlockStep whose replaces reference only withdraws a format parsed earlier
BlockStepReplacesSeenOnly(st, b) ==
    IF b.guid = <<>> THEN st
    ELSE IF b.deprecated
    THEN [st EXCEPT !.deprecated_guids = @ \cup {b.guid[1]}]
    ELSE LET dep == IF b.replaces # <<>>
                       /\ \E i \in 1..Len(st.formats_by_guid) :
                             st.formats_by_guid[i].guid = b.replaces[1]
                    THEN st.deprecated_guids \cup {b.replaces[1]}
                    ELSE st.deprecated_guids
         IN  IF BlockRaises(b)
             THEN [st EXCEPT !.deprecated_guids = dep, !.raised = TRUE]
             ELSE [st EXCEPT !.deprecated_guids = dep,
                             !.formats_by_guid = DictPut(@, FormatInfo(b))]

\* BlockStep that handles the marker and the reference before the Guid test
BlockStepReferenceBeforeGuid(st, b) ==
    IF b.deprecated
    THEN [st EXCEPT !.deprecated_guids = @ \cup {b.guid[k] : k \in 1..Len(b.guid)}]
    ELSE LET dep == IF b.replaces # <<>>
                    THEN st.deprecated_guids \cup {b.replaces[1]}
                    ELSE st.deprecated_guids
         IN  IF b.guid = <<>> THEN [st EXCEPT !.deprecated_guids = dep]
             ELSE IF BlockRaises(b)
             THEN [st EXCEPT !.deprecated_guids = dep, !.raised = TRUE]
             ELSE [st EXCEPT !.deprecated_guids = dep,
                             !.formats_by_guid = DictPut(@, FormatInfo(b))]

\* one pass of the loop body over a block
BlockStep(st, b) ==
    IF b.guid = <<>> THEN st
    ELSE IF b.deprecated
    THEN [st EXCEPT !.deprecated_guids = @ \cup {b.guid[1]}]
    ELSE LET dep == IF b.replaces # <<>>
                    THEN st.deprecated_guids \cup {b.replaces[1]}
                    ELSE st.deprecated_guids
         IN  IF BlockRaises(b)
             THEN [st EXCEPT !.deprecated_guids = dep, !.raised = TRUE]
             ELSE [st EXCEPT !.deprecated_guids = dep,
                             !.formats_by_guid = DictPut(@, FormatInfo(b))]

\* the loop over format_blocks; an exception ends it
RECURSIVE ScanBlocks(_, _)
ScanBlocks(st, blocks) ==
    IF blocks = <<>> \/ st.raised THEN st
    ELSE ScanBlocks(BlockStep(st, Head(blocks)), Tail(blocks))

Scan(blocks) ==
    ScanBlocks([formats_by_guid |-> <<>>, deprecated_guids |-> {}, raised |-> FALSE],
               blocks)

RECURSIVE SelectSeq2(_, _)
SelectSeq2(s, keep) ==
    IF s = <<>> THEN <<>>
    ELSE (IF Head(s).guid \in keep THEN <<Head(s)>> ELSE <<>>)
         \o SelectSeq2(Tail(s), keep)

\* ParseHandler without the except clause: the exception reaches the caller
ParseHandlerReraises(raised, result, fallback) ==
    [formats |-> IF raised THEN fallback ELSE result,
     outcome |-> IF raised THEN "raised" ELSE "returned"]

\* what the except clause does with an exception of the try body
ParseHandler(raised, result, fallback) ==
    [formats |-> IF raised THEN fallback ELSE result, outcome |-> "returned"]

\* self.formats and the outcome of the call, from self.formats = prev
ParseFormatsFile(f, prev) ==
    IF ~f.readable THEN ParseHandler(TRUE, <<>>, prev)
    ELSE LET st == Scan(f.blocks)
             kept == {st.formats_by_guid[i].guid : i \in 1..Len(st.formats_by_guid)}
                         \ st.deprecated_guids
         IN  ParseHandler(st.raised, SelectSeq2(st.formats_by_guid, kept), prev)

\* FormatsDefParser.__init__
NewParser(f) == ParseFormatsFile(f, <<>>)

(***************************************************************************)
(* Queries of the catalog.                                                 *)
(***************************************************************************)
\* dict.get(key): None when the key is missing
Get(fmt, key) == IF key \in DOMAIN fmt THEN <<fmt[key]>> ELSE <<>>

\* ResolutionMatches that compares the width alone
ResolutionMatchesWidthOnly(fmt, width, height) ==
    Get(fmt, "width") = <<width>>

ResolutionMatches(fmt, width, height) ==
    Get(fmt, "width") = <<width>> /\ Get(fmt, "height") = <<height>>

RECURSIVE get_formats_by_resolution(_, _, _)
get_formats_by_resolution(fs, width, height) ==
    IF fs = <<>> THEN <<>>
    ELSE (IF ResolutionMatches(Head(fs), width, height) THEN <<Head(fs)>> ELSE <<>>)
         \o get_formats_by_resolution(Tail(fs), width, height)

get_all_formats(fs) == fs

\* models[model_name].append(fmt), creating the list when the key is new
GroupAdd(models, key, fmt) ==
    IF key \in DOMAIN models
    THEN [models EXCEPT ![key] = Append(@, fmt)]
    ELSE models @@ (key :> <<fmt>>)

\* the loop of get_formats_grouped_by_model; fmt['name'] raises KeyError
RECURSIVE GroupLoop(_, _)
GroupLoop(fs, models) ==
    IF fs = <<>> THEN [raised |-> FALSE, models |-> models]
    ELSE IF "name" \notin DOMAIN Head(fs) THEN [raised |-> TRUE, models |-> models]
    ELSE LET name_parts == PySplit(Head(fs).name)
         IN  GroupLoop(Tail(fs),
                       IF name_parts # <<>>
                       THEN GroupAdd(models, name_parts[1], Head(fs))
                       ELSE models)

get_formats_grouped_by_model(fs) == GroupLoop(fs, <<>>)

(***************************************************************************)
(* The device as the SDK calls see it.                                     *)
(***************************************************************************)
DeviceSizes ==
    {[thermal |-> <<640, 480>>, palette |-> <<640, 480>>],
     [thermal |-> <<382, 288>>, palette |-> <<764, 576>>],
     [thermal |-> <<160, 120>>, palette |-> <<160, 120>>]}

\* what the environment answers to the calls of one init_camera
OpenEnvs ==
    [dll : BOOLEAN,              \* ct.CDLL loads the library
     init : {0, -1},             \* evo_irimager_usb_init
     size_raises : BOOLEAN,      \* a size query raises (OSError from the foreign call)
     size : DeviceSizes,         \* the sizes the device reports
     serial_ret : {0, -1},       \* evo_irimager_get_serial
     serial : {17}]

\* statuses of evo_irimager_get_thermal_palette_image_metadata
AcquireStatuses == {0, -1}

\* inflight counts the SDK calls that have started and not returned, overlap
\* tells that some call started while another one had not returned, acquire
\* holds the arguments of the latest acquisition call
SdkNew ==
    [live |-> FALSE, inits |-> 0, terminates |-> 0, frames |-> 0,
     inflight |-> 0, overlap |-> FALSE, acquire |-> <<>>]

\* a call into the library starts
SdkEnter(d) == [d EXCEPT !.inflight = @ + 1, !.overlap = @ \/ d.inflight > 0]

\* a call into the library returns
SdkLeave(d) == [d EXCEPT !.inflight = @ - 1]

\* a call that starts and returns within one handler step
SdkCall(d) == SdkLeave(SdkEnter(d))

SdkInit(d) == [SdkCall(d) EXCEPT !.live = TRUE, !.inits = @ + 1]

SdkTerminate(d) == [SdkCall(d) EXCEPT !.live = FALSE, !.terminates = @ + 1]

(***************************************************************************)
(* CameraManager                                                           *)
(***************************************************************************)
\* SelectAvailable without the fallback to the whole catalog
SelectAvailableNoFallback(fs, width, height) ==
    get_formats_by_resolution(fs, width, height)

\* the formats offered after the sizes are known
SelectAvailable(fs, width, height) ==
    IF get_formats_by_resolution(fs, width, height) # <<>>
    THEN get_formats_by_resolution(fs, width, height)
    ELSE get_all_formats(fs)

\* SerialOutcome that treats a failed serial query like a failed open
SerialOutcomeFatal(e) ==
    [fails_open |-> e.serial_ret # 0, serial |-> IF e.serial_ret = 0 THEN e.serial ELSE 0]

\* the serial number query: its failure is printed, the serial is then 0
SerialOutcome(e) ==
    [fails_open |-> FALSE, serial |-> IF e.serial_ret = 0 THEN e.serial ELSE 0]

\* CameraManager.init_camera: the new libir, whether usb_init was called and
\* returned 0, the return value (ok, info) and available_formats
CM_init_camera(lib, fs, avail, e) ==
    LET lib1 == lib \/ e.dll
        failed == [libir |-> lib1, called |-> lib1, opened |-> FALSE, ok |-> FALSE,
                   info |-> <<>>, available |-> avail]
    IN  IF ~lib1 THEN failed
        ELSE IF e.init # 0 THEN failed
        ELSE IF e.size_raises \/ SerialOutcome(e).fails_open
        THEN [failed EXCEPT !.opened = TRUE]
        ELSE [libir |-> TRUE, called |-> TRUE, opened |-> TRUE, ok |-> TRUE,
              info |-> <<[thermal |-> e.size.thermal, palette |-> e.size.palette,
                          serial |-> SerialOutcome(e).serial]>>,
              available |-> SelectAvailable(fs, e.size.thermal[1], e.size.thermal[2])]

\* CameraManager.deinit_camera: the SDK after the call
CM_deinit_camera(lib, d) == IF lib THEN SdkTerminate(d) ELSE d

(***************************************************************************)
(* ThermalCameraApp                                                        *)
(***************************************************************************)
\* np_thermal and metadata are the number of the frame the buffer and the
\* metadata record hold, temp_label and avg_temp_label the number of the frame
\* their texts were computed from; 0 is the zeroed buffer, the empty record
\* and the "--" texts of construction.
\* video_writer is whether self.video_writer holds a writer (is not None),
\* written the last frame handed to it; start_record_button and
\* stop_record_button are whether the buttons are enabled.
\* ok_ticks counts the update_frame ticks whose acquisition succeeded since
\* the FPS value was last recomputed; the program does not hold it
AppNew ==
    [pc |-> "new", timer |-> FALSE, record_timer |-> FALSE,
     thermal |-> <<>>, palette |-> <<>>,
     frame_count |-> 0, fps |-> <<0, 1>>, last_update_time |-> 0,
     recording |-> FALSE, video_writer |-> FALSE, written |-> 0,
     start_record_button |-> TRUE, stop_record_button |-> FALSE,
     np_thermal |-> 0, metadata |-> 0, image |-> 0,
     temp_label |-> 0, avg_temp_label |-> 0,
     thermal_len |-> 0, img_len |-> 0, stack |-> <<>>,
     ok_ticks |-> 0]

\* AllocBuffers that sizes the palette buffer by the thermal dimensions
AllocBuffersByThermalSize(a) ==
    [a EXCEPT !.thermal_len = a.thermal[1] * a.thermal[2],
              !.img_len = a.thermal[1] * a.thermal[2] * 3]

\* np_thermal and np_img of ThermalCameraApp.init_camera, by their lengths
AllocBuffers(a) ==
    [a EXCEPT !.thermal_len = a.thermal[1] * a.thermal[2],
              !.img_len = a.palette[1] * a.palette[2] * 3]

\* the arguments of evo_irimager_get_thermal_palette_image_metadata
AcquireArgs(a) ==
    [thermal |-> a.thermal, thermal_len |-> a.thermal_len,
     palette |-> a.palette, img_len |-> a.img_len]

\* app.stack is what the GUI thread is inside of, outermost first: "dialog" is
\* the event loop of a modal message box, "update_frame" and
\* "run_save_speed_test" are the handler blocked in its acquisition call
Top(a) == IF a.stack = <<>> THEN "loop" ELSE a.stack[Len(a.stack)]

Push(a, what) == [a EXCEPT !.stack = Append(@, what)]

Pop(a) == [a EXCEPT !.stack = SubSeq(@, 1, Len(@) - 1)]

\* Dispatching for a timer that runs its callback on a thread of its own
DispatchingFromOwnThread(a) == TRUE

\* the thread delivers events only from an event loop: app.exec() or the one
\* of a modal message box, never while a handler is in a call
Dispatching(a) == Top(a) \in {"loop", "dialog"}

\* a modal message box takes the input of the main window
InputEnabled(a) == Dispatching(a) /\ "dialog" \notin {a.stack[i] : i \in 1..Len(a.stack)}

\* detect_camera_model raises KeyError when the first matching format has no name
DetectRaises(fs, width, height) ==
    LET m == get_formats_by_resolution(fs, width, height)
    IN  m # <<>> /\ "name" \notin DOMAIN m[1]

\* ThermalCameraApp.init_camera: "false" (returns False), "raised" or "true"
AppInitCamera(cm, fs) ==
    IF ~cm.ok THEN "false"
    ELSE IF DetectRaises(fs, cm.info[1].thermal[1], cm.info[1].thermal[2]) THEN "raised"
    ELSE IF get_formats_grouped_by_model(fs).raised THEN "raised"
    ELSE "true"

\* UpdateFrameBody that counts the frame before it looks at the status
UpdateFrameBodyCountsFirst(a, ret, frame, t) ==
    IF ret # 0 THEN [a EXCEPT !.frame_count = @ + 1]
    ELSE LET elapsed == t - a.last_update_time
             fire == elapsed > FpsWindow
         IN  [a EXCEPT
                !.np_thermal = frame,
                !.metadata = frame,
                !.image = frame,
                !.written = IF a.recording /\ a.video_writer THEN frame ELSE @,
                !.frame_count = IF fire THEN 0 ELSE @ + 1,
                !.fps = IF fire THEN <<a.frame_count + 1, elapsed>> ELSE @,
                !.last_update_time = IF fire THEN t ELSE @,
                !.temp_label = frame,
                !.avg_temp_label = frame]

\* UpdateFrameBody that divides the count taken before the current frame
UpdateFrameBodyDropsCurrentFrame(a, ret, frame, t) ==
    IF ret # 0 THEN a
    ELSE LET elapsed == t - a.last_update_time
             fire == elapsed > FpsWindow
         IN  [a EXCEPT
                !.np_thermal = frame,
                !.metadata = frame,
                !.image = frame,
                !.written = IF a.recording /\ a.video_writer THEN frame ELSE @,
                !.frame_count = IF fire THEN 0 ELSE @ + 1,
                !.fps = IF fire THEN <<a.frame_count, elapsed>> ELSE @,
                !.last_update_time = IF fire THEN t ELSE @,
                !.temp_label = frame,
                !.avg_temp_label = frame]

\* UpdateFrameBody that recomputes as soon as the window is reached
UpdateFrameBodyFiresAtWindow(a, ret, frame, t) ==
    IF ret # 0 THEN a
    ELSE LET elapsed == t - a.last_update_time
             fire == elapsed >= FpsWindow
         IN  [a EXCEPT
                !.np_thermal = frame,
                !.metadata = frame,
                !.image = frame,
                !.written = IF a.recording /\ a.video_writer THEN frame ELSE @,
                !.frame_count = IF fire THEN 0 ELSE @ + 1,
                !.fps = IF fire THEN <<a.frame_count + 1, elapsed>> ELSE @,
                !.last_update_time = IF fire THEN t ELSE @,
                !.temp_label = frame,
                !.avg_temp_label = frame]

\* update_frame after the acquisition call returned ret; the SDK has then
\* delivered frame number sdk.frames + 1
UpdateFrameBody(a, ret, frame, t) ==
    IF ret # 0 THEN a
    ELSE LET elapsed == t - a.last_update_time
             fire == elapsed > FpsWindow
         IN  [a EXCEPT
                !.np_thermal = frame,
                !.metadata = frame,
                !.image = frame,
                !.written = IF a.recording /\ a.video_writer THEN frame ELSE @,
                !.frame_count = IF fire THEN 0 ELSE @ + 1,
                !.fps = IF fire THEN <<a.frame_count + 1, elapsed>> ELSE @,
                !.last_update_time = IF fire THEN t ELSE @,
                !.temp_label = frame,
                !.avg_temp_label = frame]

\* stop_video_recording
StopRecordingBody(a) ==
    IF ~a.recording THEN a
    ELSE [a EXCEPT !.recording = FALSE, !.record_timer = FALSE, !.video_writer = FALSE,
                   !.start_record_button = TRUE, !.stop_record_button = FALSE]

\* start_video_recording that sets the recording flag before it looks at
\* isOpened()
StartRecordingBodyFlagsBeforeOpenCheck(a, opened) ==
    IF a.recording THEN a
    ELSE IF ~opened THEN [a EXCEPT !.video_writer = FALSE, !.recording = TRUE]
    ELSE [a EXCEPT !.video_writer = TRUE, !.recording = TRUE, !.record_timer = TRUE,
                   !.start_record_button = FALSE, !.stop_record_button = TRUE]

\* start_video_recording; opened is VideoWriter.isOpened()
StartRecordingBody(a, opened) ==
    IF a.recording THEN a
    ELSE IF ~opened THEN [a EXCEPT !.video_writer = FALSE]
    ELSE [a EXCEPT !.video_writer = TRUE, !.recording = TRUE, !.record_timer = TRUE,
                   !.start_record_button = FALSE, !.stop_record_button = TRUE]

(***************************************************************************)
(* PaletteManager                                                          *)
(***************************************************************************)
PALETTE_MAP ==
    ("Alarm Blue" :> 1) @@ ("Pinkblue" :> 2) @@ ("Bone" :> 3) @@ ("Grayblack" :> 4) @@
    ("Alarm Green" :> 5) @@ ("Iron" :> 6) @@ ("Orange" :> 7) @@ ("Medical" :> 8) @@
    ("Rain" :> 9) @@ ("Rainbow" :> 10) @@ ("Alarm Red" :> 11)

DEFAULT_PALETTE_ID == 6

\* the names callers pass: those of the table and others
PaletteInputs == DOMAIN PALETTE_MAP \cup {"Viridis", "iron", ""}

\* get_palette_id with 0 for an unknown name
get_palette_idUnknownIsZero(palette_name) ==
    IF palette_name \in DOMAIN PALETTE_MAP THEN PALETTE_MAP[palette_name] ELSE 0

\* PALETTE_MAP.get(palette_name, DEFAULT_PALETTE_ID)
get_palette_id(palette_name) ==
    IF palette_name \in DOMAIN PALETTE_MAP THEN PALETTE_MAP[palette_name]
    ELSE DEFAULT_PALETTE_ID

\* get_available_palettes, as the set of the keys
get_available_palettes == DOMAIN PALETTE_MAP

\* PaletteManager.set_palette; status is what evo_irimager_set_palette
\* returns; passed holds the id handed to the device, if the call is made
PM_set_palette(lib, palette_name, status) ==
    IF ~lib THEN [val |-> FALSE, passed |-> <<>>]
    ELSE [val |-> status = 0, passed |-> <<get_palette_id(palette_name)>>]

SHUTTER_MODE_AUTO == 1

SHUTTER_MODE_MANUAL == 0

\* the texts of the palette combo box the operator picks from
ComboTexts == {"Iron", "Rainbow"}

\* the statements of closeEvent, in program order
CloseSteps == <<"timer.stop", "record_timer.stop", "stop_video_recording", "deinit_camera">>

\* one statement of closeEvent; at_release is what the application holds at
\* the moment camera_manager.deinit_camera() is entered
CloseStep(st, step, lib) ==
    CASE step = "timer.stop" -> [st EXCEPT !.app.timer = FALSE]
      [] step = "record_timer.stop" -> [st EXCEPT !.app.record_timer = FALSE]
      [] step = "stop_video_recording" ->
           IF st.app.recording THEN [st EXCEPT !.app = StopRecordingBody(st.app)] ELSE st
      [] step = "deinit_camera" ->
           [st EXCEPT !.sdk = CM_deinit_camera(lib, st.sdk),
                      !.at_release = <<[timer |-> st.app.timer,
                                        record_timer |-> st.app.record_timer,
                                        recording |-> st.app.recording,
                                        video_writer |-> st.app.video_writer]>>]

RECURSIVE RunClose(_, _, _)
RunClose(st, steps, lib) ==
    IF steps = <<>> THEN st
    ELSE RunClose(CloseStep(st, Head(steps), lib), Tail(steps), lib)

\* closeEvent that releases the camera first and stops the timers afterwards
CloseEventBodyReleasesFirst(a, lib, d) ==
    RunClose([app |-> a, sdk |-> d, at_release |-> <<>>],
             <<"deinit_camera", "timer.stop", "record_timer.stop", "stop_video_recording">>,
             lib)

\* closeEvent up to super().closeEvent
CloseEventBody(a, lib, d) ==
    RunClose([app |-> a, sdk |-> d, at_release |-> <<>>], CloseSteps, lib)

(***************************************************************************)
(* SpecCatalog: one FormatsDefParser object.                               *)
(***************************************************************************)
Resolutions == {<<640, 480>>, <<382, 288>>, <<640, 288>>}

InitAny(fs) ==
    /\ file \in fs
    /\ formats = <<>>
    /\ loaded = "new"
    /\ last = [op |-> "none"]
    /\ libir = FALSE
    /\ available_formats = <<>>
    /\ sdk = SdkNew
    /\ app = AppNew
    /\ now = 0

InitCatalog == InitAny(Files)

\* FormatsDefParser(): __init__ runs parse_formats_file
Construct ==
    /\ loaded = "new"
    /\ formats' = NewParser(file).formats
    /\ loaded' = NewParser(file).outcome
    /\ UNCHANGED <<file, last, libir, available_formats, sdk, app, now>>

QueryByResolution ==
    /\ loaded = "returned"
    /\ \E r \in Resolutions :
         last' = [op |-> "get_formats_by_resolution", width |-> r[1], height |-> r[2],
                  val |-> get_formats_by_resolution(formats, r[1], r[2])]
    /\ UNCHANGED <<file, formats, loaded, libir, available_formats, sdk, app, now>>

QueryAll ==
    /\ loaded = "returned"
    /\ last' = [op |-> "get_all_formats", val |-> get_all_formats(formats)]
    /\ UNCHANGED <<file, formats, loaded, libir, available_formats, sdk, app, now>>

QueryGrouped ==
    /\ loaded = "returned"
    /\ last' = [op |-> "get_formats_grouped_by_model",
                raised |-> get_formats_grouped_by_model(formats).raised,
                val |-> get_formats_grouped_by_model(formats).models]
    /\ UNCHANGED <<file, formats, loaded, libir, available_formats, sdk, app, now>>

NextCatalog == Construct \/ QueryByResolution \/ QueryAll \/ QueryGrouped

SpecCatalog == InitCatalog /\ [][NextCatalog]_vars

(***************************************************************************)
(* SpecManager: one CameraManager object, its methods called in any order. *)
(***************************************************************************)
Blk(g, dep, name, out) ==
    [guid |-> <<g>>, deprecated |-> dep, replaces |-> <<>>, name |-> name,
     out |-> out, hwrev |-> <<>>, fwrev |-> <<>>, deviceRes |-> <<>>]

\* the catalogs the camera is opened against
SessionFiles ==
    {[readable |-> FALSE, blocks |-> <<>>],
     [readable |-> TRUE, blocks |-> <<>>],
     [readable |-> TRUE, blocks |-> <<Blk("A", FALSE, <<NamePI>>, <<Out640>>)>>],
     [readable |-> TRUE, blocks |-> <<Blk("A", FALSE, <<>>, <<Out640>>)>>],
     [readable |-> TRUE, blocks |-> <<Blk("A", FALSE, <<NameXi>>, <<Out382>>),
                                      Blk("B", FALSE, <<NamePI>>, <<Out640>>)>>],
     [readable |-> TRUE, blocks |-> <<Blk("A", TRUE, <<NamePI>>, <<Out640>>),
                                      Blk("B", FALSE, <<NameLead>>, <<Out640b>>)>>],
     [readable |-> TRUE, blocks |-> <<Blk("A", FALSE, <<NameXi>>, <<Out382>>),
                                      Blk("B", FALSE, <<>>, <<>>)>>]}

InitManager == InitAny(SessionFiles)

\* CameraManager(): libir is None, the catalog is parsed
NewCameraManager ==
    /\ loaded = "new"
    /\ formats' = NewParser(file).formats
    /\ loaded' = NewParser(file).outcome
    /\ libir' = FALSE
    /\ available_formats' = <<>>
    /\ UNCHANGED <<file, last, sdk, app, now>>

\* CameraManager.init_camera
MgrInitCamera ==
    /\ loaded = "returned"
    /\ sdk.inits < MaxOpens
    /\ \E e \in OpenEnvs :
         LET cm == CM_init_camera(libir, formats, available_formats, e)
         IN  /\ libir' = cm.libir
             /\ available_formats' = cm.available
             /\ sdk' = IF cm.opened THEN SdkInit(sdk) ELSE sdk
             /\ last' = [op |-> "init_camera", env |-> e, lib |-> libir, ok |-> cm.ok,
                         info |-> cm.info, was_live |-> sdk.live, called |-> cm.called]
    /\ UNCHANGED <<file, formats, loaded, app, now>>

\* CameraManager.deinit_camera
MgrDeinitCamera ==
    /\ loaded = "returned"
    /\ sdk.terminates < MaxOpens
    /\ sdk' = CM_deinit_camera(libir, sdk)
    /\ last' = [op |-> "deinit_camera", was_live |-> sdk.live,
                terminated |-> sdk'.terminates # sdk.terminates,
                repeated |-> last.op = "deinit_camera"]
    /\ UNCHANGED <<file, formats, loaded, libir, available_formats, app, now>>

\* PaletteManager.get_palette_id
MgrGetPaletteId ==
    /\ loaded = "returned"
    /\ \E name \in PaletteInputs :
         last' = [op |-> "get_palette_id", name |-> name, val |-> get_palette_id(name)]
    /\ UNCHANGED <<file, formats, loaded, libir, available_formats, sdk, app, now>>

\* PaletteManager.set_palette on this camera manager
MgrSetPalette ==
    /\ loaded = "returned"
    /\ \E name \in PaletteInputs, status \in {0, -1} :
         last' = [op |-> "set_palette", name |-> name,
                  val |-> PM_set_palette(libir, name, status).val,
                  passed |-> PM_set_palette(libir, name, status).passed,
                  was_live |-> sdk.live]
    /\ UNCHANGED <<file, formats, loaded, libir, available_formats, sdk, app, now>>

NextManager ==
    \/ NewCameraManager
    \/ MgrInitCamera
    \/ MgrDeinitCamera
    \/ MgrGetPaletteId
    \/ MgrSetPalette

SpecManager == InitManager /\ [][NextManager]_vars

(***************************************************************************)
(* Spec: the program.                                                      *)
(***************************************************************************)
\* the catalogs the program is started with: none, one whose only format has
\* no name, and one with two named formats
ProgramFiles ==
    {[readable |-> FALSE, blocks |-> <<>>],
     [readable |-> TRUE, blocks |-> <<Blk("A", FALSE, <<>>, <<Out640>>)>>],
     [readable |-> TRUE, blocks |-> <<Blk("A", FALSE, <<NameXi>>, <<Out382>>),
                                      Blk("B", FALSE, <<NamePI>>, <<Out640>>)>>]}

Init == InitAny(ProgramFiles)

\* ThermalCameraApp.__init__: the managers, the widgets, init_camera, then
\* sys.exit(1), an exception leaving the constructor, or the timer started
AppInit ==
    /\ app.pc = "new"
    /\ formats' = NewParser(file).formats
    /\ loaded' = NewParser(file).outcome
    /\ \E e \in OpenEnvs :
         LET fs == NewParser(file).formats
             cm == CM_init_camera(FALSE, fs, <<>>, e)
             r  == AppInitCamera(cm, fs)
         IN  /\ libir' = cm.libir
             /\ available_formats' = cm.available
             /\ sdk' = IF cm.opened THEN SdkInit(sdk) ELSE sdk
             /\ app' = LET a == [AppNew EXCEPT
                                   !.pc = CASE r = "true" -> "running"
                                            [] r = "false" -> "exit1"
                                            [] r = "raised" -> "crashed",
                                   !.timer = (r = "true"),
                                   !.thermal = IF cm.ok THEN cm.info[1].thermal ELSE <<>>,
                                   !.palette = IF cm.ok THEN cm.info[1].palette ELSE <<>>,
                                   !.last_update_time = now]
                        IN  IF r = "true" THEN AllocBuffers(a) ELSE a
             /\ last' = [op |-> "__init__", env |-> e, ok |-> cm.ok, info |-> cm.info]
    /\ UNCHANGED <<file, now>>

\* time passes while the event loop runs
Tick ==
    /\ app.pc = "running"
    /\ now < MaxTime
    /\ now' = now + 1
    /\ UNCHANGED <<file, formats, loaded, last, libir, available_formats, sdk, app>>

\* the acquisition timer fires: update_frame starts and enters the
\* acquisition call
UpdateFrameCall ==
    /\ app.pc = "running"
    /\ app.timer
    /\ Dispatching(app)
    /\ app' = Push(app, "update_frame")
    /\ sdk' = [SdkEnter(sdk) EXCEPT !.acquire = <<AcquireArgs(app)>>]
    /\ last' = [op |-> "update_frame: acquisition call"]
    /\ UNCHANGED <<file, formats, loaded, libir, available_formats, now>>

\* the acquisition call of update_frame returns ret; the rest of update_frame
UpdateFrame(ret) ==
    /\ app.pc = "running"
    /\ Top(app) = "update_frame"
    /\ ret = 0 => sdk.frames < MaxFrames
    /\ sdk' = IF ret = 0 THEN [SdkLeave(sdk) EXCEPT !.frames = @ + 1] ELSE SdkLeave(sdk)
    /\ LET b == UpdateFrameBody(app, ret, sdk.frames + 1, now)
           recomputed == b.last_update_time # app.last_update_time \/ b.fps # app.fps
           n == IF ret = 0 THEN app.ok_ticks + 1 ELSE app.ok_ticks
       IN  /\ app' = Pop([b EXCEPT !.ok_ticks = IF recomputed THEN 0 ELSE n])
           /\ last' = [op |-> "update_frame", ret |-> ret,
                       recompute |-> IF recomputed
                                     THEN <<[n |-> n, elapsed |-> now - app.last_update_time]>>
                                     ELSE <<>>]
    /\ UNCHANGED <<file, formats, loaded, libir, available_formats, now>>

StartVideoRecording ==
    /\ app.pc = "running"
    /\ InputEnabled(app)
    /\ \E opened \in BOOLEAN : app' = StartRecordingBody(app, opened)
    /\ last' = [op |-> "start_video_recording"]
    /\ UNCHANGED <<file, formats, loaded, libir, available_formats, sdk, now>>

StopVideoRecording ==
    /\ app.pc = "running"
    /\ InputEnabled(app)
    /\ app' = StopRecordingBody(app)
    /\ last' = [op |-> "stop_video_recording"]
    /\ UNCHANGED <<file, formats, loaded, libir, available_formats, sdk, now>>

\* the one-second record timer fires: update_record_time; while recording it
\* shows the whole seconds since the recording began, which is between 0 and
\* the whole seconds the program has been running (the label text and
\* record_duration are outputs only, held in last)
UpdateRecordTime ==
    /\ app.pc = "running"
    /\ app.record_timer
    /\ Dispatching(app)
    /\ last' = [op |-> "update_record_time", shown |-> app.recording]
    /\ UNCHANGED <<file, formats, loaded, libir, available_formats, sdk, app, now>>

\* the palette combo box changes: ThermalCameraApp.set_palette
SetPalette ==
    /\ app.pc = "running"
    /\ InputEnabled(app)
    /\ \E name \in ComboTexts, status \in {0, -1} :
         LET r == PM_set_palette(libir, name, status)
         IN  /\ sdk' = IF r.passed # <<>> THEN SdkCall(sdk) ELSE sdk
             /\ last' = [op |-> "set_palette", passed |-> r.passed]
    /\ UNCHANGED <<file, formats, loaded, libir, available_formats, app, now>>

\* the auto-calibration check box changes: toggle_auto_calib
ToggleAutoCalib ==
    /\ app.pc = "running"
    /\ InputEnabled(app)
    /\ \E state \in {0, 2} :
         /\ sdk' = IF libir THEN SdkCall(sdk) ELSE sdk
         /\ last' = [op |-> "toggle_auto_calib",
                     shutter_mode |-> IF state = 2 THEN SHUTTER_MODE_AUTO
                                      ELSE SHUTTER_MODE_MANUAL]
    /\ UNCHANGED <<file, formats, loaded, libir, available_formats, app, now>>

\* the calibration button: trigger_calibration
TriggerCalibration ==
    /\ app.pc = "running"
    /\ InputEnabled(app)
    /\ sdk' = SdkCall(sdk)
    /\ last' = [op |-> "trigger_calibration"]
    /\ UNCHANGED <<file, formats, loaded, libir, available_formats, app, now>>

\* the save button: save_snapshot with the metadata and temperature-data
\* check boxes checked, as they are constructed (unchecking one only leaves
\* its file out); the PNG is encoded by the SDK (methods 0 and 1) or taken
\* from the displayed pixmap, or not saved at all.  last holds what went into
\* the files: the frame of the metadata record, of the centre and mean label
\* texts and of the buffer
SaveSnapshot ==
    /\ app.pc = "running"
    /\ InputEnabled(app)
    /\ \E png \in {"sdk", "pixmap", "none"} :
         /\ sdk' = IF png = "sdk" THEN SdkCall(sdk) ELSE sdk
         /\ last' = [op |-> "save_snapshot", png |-> png,
                     metadata |-> app.metadata,
                     labels |-> <<app.temp_label, app.avg_temp_label>>,
                     thermal |-> app.np_thermal]
    /\ UNCHANGED <<file, formats, loaded, libir, available_formats, app, now>>

\* the speed-test button: run_save_speed_test starts and enters its
\* acquisition call
SpeedTestCall ==
    /\ app.pc = "running"
    /\ InputEnabled(app)
    /\ libir
    /\ app' = Push(app, "run_save_speed_test")
    /\ sdk' = [SdkEnter(sdk) EXCEPT !.acquire = <<AcquireArgs(app)>>]
    /\ last' = [op |-> "run_save_speed_test: acquisition call"]
    /\ UNCHANGED <<file, formats, loaded, libir, available_formats, now>>

\* the acquisition call of run_save_speed_test returns ret: on a failure the
\* warning box opens; otherwise the frame is in the buffers, the encode calls
\* of the timed loops are made one after the other, and the result box opens
SpeedTestReturn(ret) ==
    /\ app.pc = "running"
    /\ Top(app) = "run_save_speed_test"
    /\ ret = 0 => sdk.frames < MaxFrames
    /\ sdk' = IF ret = 0 THEN SdkCall([SdkLeave(sdk) EXCEPT !.frames = @ + 1])
              ELSE SdkLeave(sdk)
    /\ app' = Push(Pop(IF ret = 0
                        THEN [app EXCEPT !.np_thermal = sdk.frames + 1,
                                         !.metadata = sdk.frames + 1]
                        ELSE app),
                   "dialog")
    /\ last' = [op |-> "run_save_speed_test", ret |-> ret]
    /\ UNCHANGED <<file, formats, loaded, libir, available_formats, now>>

\* the operator dismisses the message box; run_save_speed_test returns
DialogClose ==
    /\ app.pc = "running"
    /\ Top(app) = "dialog"
    /\ app' = Pop(app)
    /\ UNCHANGED <<file, formats, loaded, last, libir, available_formats, sdk, now>>

\* closeEvent: the timers are stopped, a recording is stopped, the camera is
\* released; the event loop then ends
CloseEvent ==
    /\ app.pc = "running"
    /\ InputEnabled(app)
    /\ app' = [CloseEventBody(app, libir, sdk).app EXCEPT !.pc = "closed"]
    /\ sdk' = CloseEventBody(app, libir, sdk).sdk
    /\ last' = [op |-> "closeEvent", was_recording |-> app.recording,
                at_release |-> CloseEventBody(app, libir, sdk).at_release]
    /\ UNCHANGED <<file, formats, loaded, libir, available_formats, now>>

Next ==
    \/ AppInit
    \/ Tick
    \/ UpdateFrameCall
    \/ \E ret \in AcquireStatuses : UpdateFrame(ret)
    \/ StartVideoRecording
    \/ StopVideoRecording
    \/ UpdateRecordTime
    \/ SetPalette
    \/ ToggleAutoCalib
    \/ TriggerCalibration
    \/ SaveSnapshot
    \/ SpeedTestCall
    \/ \E ret \in AcquireStatuses : SpeedTestReturn(ret)
    \/ DialogClose
    \/ CloseEvent

Spec == Init /\ [][Next]_vars

(***************************************************************************)
(* SpecConvert: the temperature read-out of update_frame on one acquired   *)
(* frame.  Temperatures are exact fractions [num, den]; the rounding of    *)
(* the binary floating-point types is not represented.                     *)
(***************************************************************************)
RECURSIVE Gcd(_, _)
Gcd(x, y) == IF y = 0 THEN x ELSE Gcd(y, x % y)

Abs(x) == IF x < 0 THEN -x ELSE x

\* a fraction in lowest terms with a positive denominator
Frac(n, d) ==
    LET g == Gcd(Abs(n), Abs(d))
        s == IF d < 0 THEN -1 ELSE 1
    IN  [num |-> s * (n \div g), den |-> s * (d \div g)]

FracDiv(x, y) == Frac(x.num * y.den, x.den * y.num)

FracSub(x, y) == Frac(x.num * y.den - y.num * x.den, x.den * y.den)

FracAdd(x, y) == Frac(x.num * y.den + y.num * x.den, x.den * y.den)

\* the values a c_ushort sample takes
RawValues == 0..65535

\* CenterIndex that rounds the halves up
CenterIndexRoundsUp(width, height) ==
    ((height + 1) \div 2) * width + ((width + 1) \div 2)

\* center_index of update_frame
CenterIndex(width, height) ==
    (height \div 2) * width + (width \div 2)

\* Celsius with the offset taken in tenths
CelsiusOffsetInTenths(raw) ==
    FracSub(FracDiv(Frac(raw, 1), Frac(10, 1)), Frac(1000, 1))

\* (raw / 10.0) - 100.0
Celsius(raw) ==
    FracSub(FracDiv(Frac(raw, 1), Frac(10, 1)), Frac(100, 1))

\* np_thermal[i] for a Python index i
Sample(buf, i) == buf[i + 1]

\* (np_thermal.astype(np.float32) / 10.0) - 100.0: a new array
Temperatures(buf) == [i \in 1..Len(buf) |-> Celsius(buf[i])]

RECURSIVE FracSum(_)
FracSum(s) == IF s = <<>> THEN Frac(0, 1) ELSE FracAdd(Head(s), FracSum(Tail(s)))

\* np.mean
Mean(s) == FracDiv(FracSum(s), Frac(Len(s), 1))

\* raw samples the larger frames are filled with
SampleRaws == {0, 1000, 65535}

\* the sizes the SDK reports for the cameras of the catalog, and small ones
ConvertSizes ==
    {d.thermal : d \in DeviceSizes} \cup {<<w, h>> : w \in 1..MaxDim, h \in 1..MaxDim}

\* the frames held sample by sample: every raw value on a one-sample frame,
\* the sample raws on the larger ones
Buffers(w, h) ==
    IF w * h = 1 THEN {<<r>> : r \in RawValues}
    ELSE IF w <= MaxDim /\ h <= MaxDim THEN [1..(w * h) -> SampleRaws]
    ELSE {<<>>}

InitConvert ==
    /\ file = [readable |-> FALSE, blocks |-> <<>>]
    /\ formats = <<>>
    /\ loaded = "new"
    /\ last = [op |-> "none"]
    /\ libir = TRUE
    /\ available_formats = <<>>
    /\ sdk = [SdkNew EXCEPT !.live = TRUE, !.inits = 1, !.frames = 1]
    /\ now = 0
    /\ \E size \in ConvertSizes : \E buf \in Buffers(size[1], size[2]) :
         app = [AppNew EXCEPT !.pc = "acquired", !.timer = TRUE, !.thermal = size,
                              !.np_thermal = buf]

\* update_frame, line 1072
LocateCentre ==
    /\ app.pc = "acquired"
    /\ app' = [app EXCEPT !.pc = "located"]
    /\ last' = [op |-> "center_index",
                center_index |-> CenterIndex(app.thermal[1], app.thermal[2])]
    /\ UNCHANGED <<file, formats, loaded, libir, available_formats, sdk, now>>

\* update_frame, lines 1073-1080, on a frame held sample by sample
ReadTemperatures ==
    /\ app.pc = "located"
    /\ Len(app.np_thermal) = app.thermal[1] * app.thermal[2]
    /\ LET raw_temp == Sample(app.np_thermal, last.center_index)
           temp_c == Celsius(raw_temp)
           temperatures == Temperatures(app.np_thermal)
           avg_temp == Mean(temperatures)
       IN  /\ app' = [app EXCEPT !.pc = "shown",
                                 !.temp_label = [temp_c |-> temp_c, raw |-> raw_temp,
                                                 avg_temp |-> avg_temp]]
           /\ last' = [op |-> "temperatures", center_index |-> last.center_index,
                       raw_temp |-> raw_temp, temp_c |-> temp_c,
                       temperatures |-> temperatures, avg_temp |-> avg_temp]
    /\ UNCHANGED <<file, formats, loaded, libir, available_formats, sdk, now>>

NextConvert == LocateCentre \/ ReadTemperatures

SpecConvert == InitConvert /\ [][NextConvert]_vars

(***************************************************************************)
(* Properties.                                                             *)
(***************************************************************************)
Range(s) == {s[i] : i \in 1..Len(s)}

Retained == {formats[i].guid : i \in 1..Len(formats)}

GuidBlocks == {i \in 1..Len(file.blocks) : file.blocks[i].guid # <<>>}

\* C1: after parse_formats_file the retained GUIDs are pairwise distinct, and
\* none of them is the Guid of a block that carries the deprecation marker,
\* whether or not another block names that Guid in a replaces reference.
C1_RetainedDistinctNotDeprecated ==
    loaded = "returned" =>
        /\ \A i, j \in 1..Len(formats) : formats[i].guid = formats[j].guid => i = j
        /\ \A i \in GuidBlocks :
             file.blocks[i].deprecated => file.blocks[i].guid[1] \notin Retained

\* a deprecated block whose Guid another, retained block replaces
C1_Witness ==
    /\ loaded = "returned"
    /\ formats # <<>>
    /\ \E i, j \in GuidBlocks :
         /\ file.blocks[i].deprecated
         /\ ~file.blocks[j].deprecated
         /\ file.blocks[j].replaces # <<>>
         /\ file.blocks[j].replaces[1] = file.blocks[i].guid[1]
         /\ file.blocks[j].guid[1] \in Retained

\* C2 as stated: whatever block declares a replaces {G} reference, wherever
\* the reference stands in it and whatever else the block carries, no format
\* with GUID G is retained.
C2_AnyReplacesExcludes ==
    loaded = "returned" =>
        \A i \in 1..Len(file.blocks) :
            \A k \in 1..Len(file.blocks[i].replaces) :
                file.blocks[i].replaces[k] \notin Retained

\* C2 amended: for every block that has a Guid and no deprecation marker, the
\* GUID of its first replaces reference is not retained, even when the block
\* of that GUID carries no deprecation marker.
C2_FirstReplacesOfLiveBlockExcludes ==
    loaded = "returned" =>
        \A i \in GuidBlocks :
            (~file.blocks[i].deprecated /\ file.blocks[i].replaces # <<>>)
                => file.blocks[i].replaces[1] \notin Retained

\* a block replaces the GUID of another block that has no deprecation marker
\* and is otherwise well formed, and is itself retained
C2_Witness ==
    /\ loaded = "returned"
    /\ \E i, j \in GuidBlocks :
         /\ i # j
         /\ ~file.blocks[i].deprecated /\ ~file.blocks[j].deprecated
         /\ file.blocks[i].replaces # <<>>
         /\ file.blocks[i].replaces[1] = file.blocks[j].guid[1]
         /\ file.blocks[i].guid[1] # file.blocks[j].guid[1]
         /\ file.blocks[i].guid[1] \in Retained

\* the retained formats that declare the Out resolution width x height
Declaring(width, height) ==
    {i \in 1..Len(formats) :
        /\ "width" \in DOMAIN formats[i] /\ "height" \in DOMAIN formats[i]
        /\ formats[i].width = width /\ formats[i].height = height}

\* the file is two well-formed 640x480 blocks of different Guids, exactly one
\* of them marked deprecated, the other not replacing itself
TwoFormatsOneDeprecated ==
    /\ file.readable /\ Len(file.blocks) = 2
    /\ \A i \in 1..2 :
         /\ file.blocks[i].guid # <<>>
         /\ file.blocks[i].out # <<>>
         /\ ~BlockRaises(file.blocks[i])
         /\ PyInt(file.blocks[i].out[1].w) = 640
         /\ PyInt(file.blocks[i].out[1].h) = 480
         /\ ~file.blocks[i].deprecated =>
              (file.blocks[i].replaces = <<>>
                  \/ file.blocks[i].replaces[1] # file.blocks[i].guid[1])
    /\ file.blocks[1].guid # file.blocks[2].guid
    /\ file.blocks[1].deprecated # file.blocks[2].deprecated

\* C3: get_formats_by_resolution(width, height) returns the retained formats
\* whose Out width and height both equal the arguments, each once and no
\* other (a format without Out never matches); for a catalog of two 640x480
\* formats, one of them deprecated, the lookup of (640, 480) returns exactly
\* the one that is not deprecated.
C3_LookupByResolutionExact ==
    last.op = "get_formats_by_resolution" =>
        /\ Range(last.val) = {formats[i] : i \in Declaring(last.width, last.height)}
        /\ Len(last.val) = Cardinality(Declaring(last.width, last.height))
        /\ (TwoFormatsOneDeprecated /\ last.width = 640 /\ last.height = 480) =>
             /\ Len(last.val) = 1
             /\ \E i \in 1..2 : /\ ~file.blocks[i].deprecated
                                /\ last.val[1].guid = file.blocks[i].guid[1]

\* the lookup of (640, 480) in a catalog of two 640x480 formats, one deprecated
C3_Witness ==
    /\ last.op = "get_formats_by_resolution"
    /\ last.width = 640 /\ last.height = 480
    /\ TwoFormatsOneDeprecated
    /\ Len(last.val) = 1

\* the groups a retained format appears in
GroupsOf(models, fmt) == {k \in DOMAIN models : fmt \in Range(models[k])}

\* C4 as stated: get_formats_grouped_by_model does not fail and returns a
\* partition of the retained catalog: every retained format, also one without
\* a Name or with a blank name, is in exactly one group, and the group of a
\* format whose name has a token is keyed by the first token.
C4_GroupingIsPartition ==
    last.op = "get_formats_grouped_by_model" =>
        /\ ~last.raised
        /\ \A i \in 1..Len(formats) :
             /\ Cardinality(GroupsOf(last.val, formats[i])) = 1
             /\ ("name" \in DOMAIN formats[i] /\ PySplit(formats[i].name) # <<>>) =>
                  GroupsOf(last.val, formats[i]) = {PySplit(formats[i].name)[1]}

\* the file cannot be read, or a block of it makes the parser raise
Malformed(f) == ~f.readable \/ Scan(f.blocks).raised

\* C5 as stated: loading an unreadable or malformed catalog file fails with
\* an error reported to the caller and does not return normally.
C5_LoadFailsOnBadFile ==
    (loaded # "new" /\ Malformed(file)) => loaded = "raised"

\* C5 amended: loading never reports an error to the caller; for an
\* unreadable file, or one with a block the parser raises on, the constructor
\* returns normally with an empty catalog, blocks parsed before the error
\* included.
C5_LoadDegradesToEmpty ==
    /\ loaded # "new" => loaded = "returned"
    /\ (loaded # "new" /\ Malformed(file)) => formats = <<>>

\* a good block was parsed before the block that raises
C5_Witness ==
    /\ loaded = "returned"
    /\ file.readable
    /\ Scan(file.blocks).raised
    /\ Scan(file.blocks).formats_by_guid # <<>>
    /\ formats = <<>>

\* C6: after a successful CameraManager.init_camera, available_formats is the
\* retained formats whose Out resolution is the thermal size the device
\* reported when there is one, and the whole retained catalog otherwise; an
\* open whose library load, SDK initialisation and size queries succeeded is
\* not failed by the absence of a matching resolution.
C6_AvailableFormatsOrFallback ==
    last.op = "init_camera" =>
        LET m == Declaring(last.env.size.thermal[1], last.env.size.thermal[2])
        IN  /\ (last.ok /\ m # {}) =>
                 /\ Range(available_formats) = {formats[i] : i \in m}
                 /\ Len(available_formats) = Cardinality(m)
            /\ (last.ok /\ m = {}) => available_formats = formats
            /\ ((last.lib \/ last.env.dll) /\ last.env.init = 0
                    /\ ~last.env.size_raises /\ m = {}) => last.ok

\* a successful open of a device whose size no format of a non-empty catalog has
C6_Witness ==
    /\ last.op = "init_camera"
    /\ last.ok
    /\ formats # <<>>
    /\ Declaring(last.env.size.thermal[1], last.env.size.thermal[2]) = {}
    /\ available_formats = formats

\* C7 as stated: the open reports failure whenever the SDK initialisation
\* returns a non-zero status or an open-time query (sizes, serial number)
\* fails, and after a failed open no acquisition timer is started.
C7_OpenFailsOnAnyQueryFailure ==
    last.op = "__init__" =>
        LET o == last
        IN  /\ (~o.env.dll \/ o.env.init # 0 \/ o.env.size_raises
                    \/ o.env.serial_ret # 0) => ~o.ok
            /\ ~o.ok => ~app.timer

\* C7 amended: the open reports failure exactly when the library cannot be
\* loaded, the SDK initialisation returns a non-zero status or a size query
\* raises; a non-zero status of the serial number query does not fail the
\* open, which then reports serial 0; after a failed open the program exits
\* without starting the acquisition timer.
C7_OpenFailsOnInitOrSizeFailure ==
    last.op = "__init__" =>
        LET o == last
        IN  /\ o.ok <=> (o.env.dll /\ o.env.init = 0 /\ ~o.env.size_raises)
            /\ (o.ok /\ o.env.serial_ret # 0) => o.info[1].serial = 0
            /\ ~o.ok => (~app.timer /\ app.pc = "exit1")

\* the timer runs after an open whose serial number query failed
C7_Witness ==
    /\ app.pc = "running"
    /\ app.timer
    /\ last.op = "__init__"
    /\ last.env.serial_ret # 0
    /\ last.ok

\* C8: a tick of update_frame whose acquisition call returns a non-zero
\* status changes nothing of the application (display, recorded frames,
\* temperature labels, frame counter, FPS value and anchor, recording state,
\* dimensions, timers) nor of the device session, and leaves the timer
\* active and the event loop running.
C8_FailedTickChangesNothing ==
    [][(\E ret \in AcquireStatuses \ {0} : UpdateFrame(ret)) =>
          /\ app'.image = app.image /\ app'.written = app.written
          /\ app'.temp_label = app.temp_label
          /\ app'.frame_count = app.frame_count /\ app'.fps = app.fps
          /\ app'.last_update_time = app.last_update_time
          /\ app'.recording = app.recording /\ app'.video_writer = app.video_writer
          /\ app'.thermal = app.thermal /\ app'.palette = app.palette
          /\ sdk'.live = sdk.live /\ sdk'.terminates = sdk.terminates
          /\ libir' = libir
          /\ app'.timer /\ app'.pc = "running"]_vars

\* a failed tick during a recording, with frames already counted
C8_Witness ==
    /\ last.op = "update_frame"
    /\ last.ret # 0
    /\ app.recording /\ app.video_writer
    /\ app.frame_count > 0
    /\ app.fps[1] > 0
    /\ app.timer /\ sdk.live

\* C9 as stated: once the camera was opened, a deinit_camera call that
\* directly follows another is a no-op: it issues no SDK terminate call.
C9_SecondCloseIsNoOp ==
    (last.op = "deinit_camera" /\ last.repeated /\ sdk.inits > 0) => ~last.terminated

\* C10 as stated: when the program has ended, every SDK initialisation that
\* returned 0 has been followed by exactly one terminate call.
C10_TerminateOncePerOpen ==
    app.pc \in {"closed", "exit1", "crashed"} => sdk.terminates = sdk.inits

C12_RecomputeOnlyPastWindowAndResets ==
    [][\A ret \in AcquireStatuses :
         (UpdateFrame(ret)
            /\ (app'.fps # app.fps \/ app'.last_update_time # app.last_update_time))
         => /\ now - app.last_update_time > FpsWindow
            /\ app'.frame_count = 0
            /\ app'.last_update_time = now]_vars

\* a second recompute: the first window is closed, the second one counted
\* its own frames only
C12_Witness ==
    /\ last.op = "update_frame"
    /\ last.ret = 0
    /\ app.frame_count = 0
    /\ app.last_update_time > 2 * FpsWindow
    /\ app.fps[1] = 1
    /\ sdk.frames = 3

\* C13: for every thermal width and height of at least 1 the centre sample
\* index of update_frame is (height div 2) * width + (width div 2) with
\* truncating division: it is the sample of row height div 2 and column
\* width div 2, it lies inside the buffer of width * height samples, and for
\* 640 x 480 it is 153920.
C13_CentreIndexInsideBuffer ==
    last.op \in {"center_index", "temperatures"} =>
       LET w == app.thermal[1]
           h == app.thermal[2]
           c == last.center_index
       IN  /\ w >= 1 /\ h >= 1
           /\ c = (h \div 2) * w + (w \div 2)
           /\ c \div w = h \div 2
           /\ c % w = w \div 2
           /\ 2 * (h \div 2) \in {h, h - 1} /\ 2 * (w \div 2) \in {w, w - 1}
           /\ c >= 0 /\ c < w * h
           /\ (w = 640 /\ h = 480) => c = 153920

C13_Witness ==
    /\ last.op = "center_index"
    /\ app.thermal = <<640, 480>>
    /\ last.center_index = 153920

C15_PaletteIdTotalAndInRange ==
    /\ Cardinality(DOMAIN PALETTE_MAP) = 11
    /\ {PALETTE_MAP[n] : n \in DOMAIN PALETTE_MAP} = 1..11
    /\ last.op = "get_palette_id" =>
         /\ last.name \in DOMAIN PALETTE_MAP => last.val = PALETTE_MAP[last.name]
         /\ last.name \notin DOMAIN PALETTE_MAP => last.val = 6
         /\ last.val \in 1..11
    /\ last.op = "set_palette" =>
         \A id \in Range(last.passed) :
            /\ id \in 1..11
            /\ last.name \in DOMAIN PALETTE_MAP => id = PALETTE_MAP[last.name]
            /\ last.name \notin DOMAIN PALETTE_MAP => id = 6

C15_Witness ==
    /\ last.op = "set_palette"
    /\ last.name = "Viridis"
    /\ last.passed = <<6>>
    /\ sdk.live

\* the parse has returned and no query has been made yet
JustParsed == loaded = "returned" /\ last.op = "none"

\* the orders of n blocks
Perms(n) == {p \in [1..n -> 1..n] : \A i, j \in 1..n : p[i] = p[j] => i = j}

Permuted(f, p) == [f EXCEPT !.blocks = [i \in 1..Len(f.blocks) |-> f.blocks[p[i]]]]

\* the blocks that put an entry for GUID g into the map
Declarers(f, g) ==
    {i \in 1..Len(f.blocks) : f.blocks[i].guid = <<g>> /\ ~f.blocks[i].deprecated}

\* C16 as stated: two files with the same blocks in different orders yield
\* the same retained formats, with the same attributes for every retained
\* GUID, blocks sharing a GUID with different fields included.
C16_ParseIsOrderIndependent ==
    JustParsed =>
       \A p \in Perms(Len(file.blocks)) :
          Range(NewParser(Permuted(file, p)).formats) = Range(formats)

\* C16, amended: two files with the same blocks in different orders yield the
\* same set of retained GUIDs, wherever a replaces reference stands; a
\* retained GUID carries the attributes of the last non-deprecated block of
\* its file that declares it, so its attributes are the same in both files
\* when the non-deprecated blocks that declare it agree on their fields.
C16_RetainedGuidsOrderIndependent ==
    JustParsed =>
       /\ \A i \in 1..Len(formats) :
             LET ds == Declarers(file, formats[i].guid)
                 lastOne == CHOOSE d \in ds : \A e \in ds : e <= d
             IN  ds # {} /\ formats[i] = FormatInfo(file.blocks[lastOne])
       /\ \A p \in Perms(Len(file.blocks)) :
             LET other == NewParser(Permuted(file, p)).formats
             IN  /\ {other[j].guid : j \in 1..Len(other)} = Retained
                 /\ \A i \in 1..Len(formats), j \in 1..Len(other) :
                       (/\ other[j].guid = formats[i].guid
                        /\ \A d, e \in Declarers(file, formats[i].guid) :
                              FormatInfo(file.blocks[d]) = FormatInfo(file.blocks[e]))
                       => other[j] = formats[i]

\* a reference that stands before the block it replaces, and a retained GUID
\* declared once
C16_Witness ==
    /\ JustParsed
    /\ Len(file.blocks) = 2
    /\ file.blocks[1].guid = <<"A">> /\ file.blocks[1].replaces = <<"B">>
    /\ ~file.blocks[1].deprecated
    /\ file.blocks[2].guid = <<"B">> /\ ~file.blocks[2].deprecated
    /\ Retained = {"A"}

\* the file without its i-th block
WithoutBlock(f, i) ==
    [f EXCEPT !.blocks = SubSeq(f.blocks, 1, i - 1) \o SubSeq(f.blocks, i + 1, Len(f.blocks))]

\* C17: a block without a Guid field is skipped entirely: the retained
\* catalog and the deprecated-GUID set are those of the file without that
\* block, also when the block carries the deprecation marker or a replaces
\* reference, and the blocks after it are still parsed.
C17_GuidlessBlockIsSkipped ==
    JustParsed =>
       \A i \in 1..Len(file.blocks) :
          file.blocks[i].guid = <<>> =>
             /\ formats = NewParser(WithoutBlock(file, i)).formats
             /\ Scan(file.blocks).deprecated_guids
                   = Scan(WithoutBlock(file, i).blocks).deprecated_guids
             /\ Scan(file.blocks).formats_by_guid
                   = Scan(WithoutBlock(file, i).blocks).formats_by_guid

\* a Guid-less block that names A in a replaces reference, followed by the
\* block of A, which is retained
C17_Witness ==
    /\ JustParsed
    /\ Len(file.blocks) = 2
    /\ file.blocks[1].guid = <<>> /\ file.blocks[1].replaces = <<"A">>
    /\ file.blocks[2].guid = <<"A">> /\ ~file.blocks[2].deprecated
    /\ Retained = {"A"}

\* C18 as stated: over every sequence of init_camera and deinit_camera calls
\* the SDK initialisation is never invoked while an earlier successful
\* initialisation has not been terminated.
C18_NoInitWhileSessionLive ==
    (last.op = "init_camera" /\ last.called) => ~last.was_live

\* C19: across every interleaving of the timer callback update_frame with the
\* handlers set_palette, toggle_auto_calib, trigger_calibration,
\* save_snapshot, run_save_speed_test and closeEvent at most one SDK call is
\* in flight: no call starts while an acquisition call has not returned,
\* also while a modal message box of run_save_speed_test is open.
C19_AtMostOneSdkCallInFlight ==
    /\ sdk.inflight \in {0, 1}
    /\ ~sdk.overlap
    /\ sdk.inflight = 1 <=> Top(app) \in {"update_frame", "run_save_speed_test"}
    /\ \A i \in 1..(Len(app.stack) - 1) : app.stack[i] = "dialog"

\* the timer callback is in its acquisition call while the result box of
\* run_save_speed_test is open
C19_Witness ==
    /\ app.stack = <<"dialog", "update_frame">>
    /\ sdk.inflight = 1
    /\ sdk.frames > 0

\* C20: after a successful open and until close, the thermal and palette
\* dimensions the application holds are those the device reported at open
\* time, the thermal buffer has thermal_width * thermal_height samples and the
\* palette buffer palette_width * palette_height * 3 bytes, and every
\* acquisition call, of update_frame and of run_save_speed_test, passes these
\* dimensions with these buffers.
C20_DimensionsAndBuffersFixed ==
    /\ [](app.pc = "running" =>
         /\ \E d \in DeviceSizes : app.thermal = d.thermal /\ app.palette = d.palette
         /\ app.thermal_len = app.thermal[1] * app.thermal[2]
         /\ app.img_len = app.palette[1] * app.palette[2] * 3
         /\ last.op = "__init__" =>
              /\ app.thermal = last.env.size.thermal
              /\ app.palette = last.env.size.palette
         /\ \A a \in Range(sdk.acquire) :
              /\ a.thermal = app.thermal /\ a.palette = app.palette
              /\ a.thermal_len = app.thermal[1] * app.thermal[2]
              /\ a.img_len = app.palette[1] * app.palette[2] * 3)
    /\ [][app.pc = "running" =>
            /\ app'.thermal = app.thermal /\ app'.palette = app.palette
            /\ app'.thermal_len = app.thermal_len /\ app'.img_len = app.img_len]_vars

\* run_save_speed_test is in its acquisition call on a device whose palette
\* image is larger than its thermal frame, after frames of the timer
C20_Witness ==
    /\ Top(app) = "run_save_speed_test"
    /\ sdk.acquire = <<AcquireArgs(app)>>
    /\ app.thermal = <<382, 288>> /\ app.palette = <<764, 576>>
    /\ app.img_len = 1320192
    /\ sdk.frames > 1

C22_DeviceCallsOnlyWhileSessionOpen ==
    (last.op = "set_palette" /\ last.passed # <<>>) => last.was_live

\* C23: through start_video_recording, stop_video_recording, update_frame,
\* update_record_time and closeEvent, recording is true exactly when a video
\* writer is held, the start button is enabled exactly when recording is false
\* and the stop button exactly when it is true; a start while recording and a
\* stop while not recording change nothing; a frame is written only in a tick
\* whose acquisition succeeded while recording; after closeEvent recording is
\* false and the writer is released.
C23_RecordingStateIsConsistent ==
    /\ [](/\ app.recording <=> app.video_writer
          /\ app.start_record_button <=> ~app.recording
          /\ app.stop_record_button <=> app.recording
          /\ app.pc = "closed" => ~app.recording /\ ~app.video_writer /\ ~app.record_timer)
    /\ [][(StartVideoRecording /\ app.recording) => app' = app /\ sdk' = sdk]_vars
    /\ [][(StopVideoRecording /\ ~app.recording) => app' = app /\ sdk' = sdk]_vars
    /\ [][UpdateRecordTime => app' = app /\ sdk' = sdk]_vars
    /\ [][app'.written # app.written =>
            /\ UpdateFrame(0)
            /\ app.recording /\ app'.recording
            /\ app'.written = sdk'.frames]_vars

C23_Witness ==
    /\ last.op = "closeEvent" /\ last.was_recording
    /\ app.pc = "closed" /\ app.written = 2 /\ sdk.frames = 3
    /\ app.start_record_button /\ ~app.stop_record_button

\* C24 as stated: whenever save_snapshot runs, the thermal buffer it saves, the
\* metadata record it writes and the centre and mean temperature texts it
\* writes all derive from one and the same successfully acquired frame, also
\* after run_save_speed_test and before the first successful tick.
C24_SnapshotIsOfOneAcquiredFrame ==
    last.op = "save_snapshot" =>
       \E f \in 1..sdk.frames :
          /\ last.thermal = f
          /\ last.metadata = f
          /\ last.labels = <<f, f>>

=============================================================================
